---- MODULE Spec2Model ----
(***************************************************************************)
(* A model of the fin_analysis pipeline:                                   *)
(*   - Visualizer.extract_triplets, the hand-written decoder of the        *)
(*     relation-extraction model's output (src/visualizer.py),             *)
(*   - Visualizer.extract_causal_relationships and Visualizer.process,     *)
(*     with the Cypher MERGE upsert into the graph store,                  *)
(*   - ArticleExtractor.process, the thread pool (src/extractor.py),       *)
(*   - Clustering.cluster_graph (src/clustering.py).                       *)
(*                                                                         *)
(* A Python string is a sequence of symbols.  A symbol is one character    *)
(* ("a", " ") or one of the model's special tokens, which the code only    *)
(* ever treats as a whole ("<triplet>", "<s>", ...).                       *)
(***************************************************************************)
EXTENDS Integers, Sequences, FiniteSets, Bags, TLC

VARIABLES
    \* ---- Visualizer.extract_triplets, run token by token
    text,        \* the argument of extract_triplets
    groups,      \* the well-formed groups text was built from (<<>> if none)
    toks,        \* the token list the for loop iterates over
    di,          \* index in toks of the next token
    dpc,         \* "start", "loop", "done"
    triplets, subject, relation, object_, current,
    \* ---- Visualizer.process
    file,        \* what open()/json.load() of file_path will do
    articles,    \* self.articles
    ai,          \* index of the article the for loop is at
    vpc,         \* "read", "article", "chunk", "store", "done"
    chunksLeft,  \* chunks of the current text not yet generated
    all_triples, \* all_triples of the last extract_causal_relationships call
    callFailed,  \* whether that call took the except branch
    rels,        \* causal_relationships, what that call returned
    ri,          \* index in rels of the next relationship to store
    nodes,       \* the store's :Entity nodes, [id, name]
    edges,       \* the store's :RELATION edges, a bag of [s, t, type]
    nextId,      \* the store's next free node id
    entity,      \* self.entity
    relationSet, \* self.relation
    accepted,    \* history: the triples returned by line 120
    handled,     \* history: the articles whose loop body has ended
    failedCalls, \* history: the articles whose call took the except branch
    \* ---- concurrent writers of the store
    wtriple,     \* per worker, the relationship its query stores
    wpc,         \* per worker, the clause its query is at
    wa, wb,      \* per worker, the node ids its query bound to a and to b
    wmissing,    \* per worker, the rows (a, b) it found no edge for
    \* ---- ArticleExtractor.process
    max_workers, \* self.max_workers
    items,       \* what read_csv returned: the rows (website_name, url)
    si,          \* index in items of the next row to submit
    ppc,         \* "submit", "collect", "done"
    tstate,      \* per submitted row: "queued", "running", "finished", "collected"
    trecord,     \* per finished row, the dictionary its future holds
    tfail,       \* history: per finished row, the stage that failed, or "none"
    results,     \* the list results
    resultOf,    \* history: the row each element of results came from
    exArticles,  \* self.articles
    \* ---- Clustering.cluster_graph, called twice on one graph
    G,           \* the graph: [nodes: the nodes in order, w: the edge weights]
    lrun,        \* which of the two calls is running
    lpc,         \* "start", "pass", "nodes", "levelend", "finish", "done"
    lg,          \* current_graph of generate_dendrogram
    node2com,    \* status.node2com
    todo,        \* the nodes the current pass has not visited yet
    modified,    \* modified of __one_level
    cur_mod,     \* cur_mod of __one_level, times 4 * total_weight^2
    new_mod,     \* new_mod of __one_level, times 4 * total_weight^2
    mod,         \* mod of generate_dendrogram, times 4 * total_weight^2
    dendo,       \* status_list of generate_dendrogram
    partition1,  \* what the first call returned
    partition2,  \* what the second call returned
    \* ---- Clustering.process: read_json, create_graph
    gfile,       \* what open()/json.load() of file_path will do
    graph_data,  \* self.graph_data
    gpc,         \* "read", "create", "nodes", "rels", "created", "cluster",
                 \* "done", "raised"
    gi,          \* index of the element the current for loop is at
    nxG,         \* G of create_graph: [nodes: in insertion order, edges]
    graised      \* the exception process ended with, or "none"

decVars == <<text, groups, toks, di, dpc, triplets, subject, relation, object_, current>>
visVars == <<file, articles, ai, vpc, chunksLeft, all_triples, callFailed, rels, ri,
             entity, relationSet, accepted, handled, failedCalls>>
storeVars == <<nodes, edges, nextId>>
wkVars == <<wtriple, wpc, wa, wb, wmissing>>
poolVars == <<max_workers, items, si, ppc, tstate, trecord, tfail, results, resultOf, exArticles>>
louVars == <<G, lrun, lpc, lg, node2com, todo, modified, cur_mod, new_mod, mod, dendo,
             partition1, partition2>>
cgVars == <<gfile, graph_data, gpc, gi, nxG, graised>>
vars == <<decVars, visVars, storeVars, wkVars, poolVars, louVars, cgVars>>

\* what the steps of one part of the program leave alone
notDec == <<visVars, storeVars, wkVars, poolVars, louVars, cgVars>>
notVis == <<decVars, wkVars, poolVars, louVars, cgVars>>
notWk == <<decVars, visVars, poolVars, louVars, cgVars>>
notPool == <<decVars, visVars, storeVars, wkVars, louVars, cgVars>>
notLou == <<decVars, visVars, storeVars, wkVars, poolVars, cgVars>>
notCg == <<decVars, visVars, storeVars, wkVars, poolVars>>

-----------------------------------------------------------------------------
(* Strings *)

SP == " "

RECURSIVE JoinSp(_)
\* ' '.join(ss)
JoinSp(ss) ==
    IF ss = <<>> THEN <<>>
    ELSE IF Len(ss) = 1 THEN ss[1]
    ELSE ss[1] \o <<SP>> \o JoinSp(Tail(ss))

RECURSIVE LStrip(_)
LStrip(s) == IF s # <<>> /\ Head(s) = SP THEN LStrip(Tail(s)) ELSE s

RECURSIVE RStrip(_)
RStrip(s) == IF s # <<>> /\ s[Len(s)] = SP THEN RStrip(SubSeq(s, 1, Len(s) - 1)) ELSE s

\* str.strip(): leading and trailing whitespace removed
Strip(s) == LStrip(RStrip(s))

\* str.replace(sentinel, ""): every occurrence of the sentinel removed
Remove(s, sentinel) == SelectSeq(s, LAMBDA c : c # sentinel)

\* the positions where a maximal run of non-whitespace symbols starts
TokenStarts(s) == {i \in 1..Len(s) : s[i] # SP /\ (i = 1 \/ s[i - 1] = SP)}

\* the position where the run that starts at i ends
TokenEnd(s, i) ==
    CHOOSE j \in i..Len(s) :
        /\ \A k \in i..j : s[k] # SP
        /\ j = Len(s) \/ s[j + 1] = SP

\* str.split(): the maximal runs of non-whitespace symbols, in order
Split(s) ==
    LET starts == TokenStarts(s)
        kth(k) == CHOOSE i \in starts : Cardinality({j \in starts : j < i}) = k - 1
    IN  [k \in 1..Cardinality(starts) |-> SubSeq(s, kth(k), TokenEnd(s, kth(k)))]

\* the upper-case letters of the model's alphabet, with their lower case
ToLower ==
    ("A" :> "a") @@ ("B" :> "b") @@ ("F" :> "f") @@ ("H" :> "h") @@ ("L" :> "l")
        @@ ("P" :> "p") @@ ("U" :> "u")

\* one character lower-cased
LowerChar(c) == IF c \in DOMAIN ToLower THEN ToLower[c] ELSE c

\* str.lower()
Lower(s) == [i \in 1..Len(s) |-> LowerChar(s[i])]

\* k in s, for strings: k occurs in s as a contiguous substring
Contains(s, k) ==
    \E i \in 0..(Len(s) - Len(k)) : SubSeq(s, i + 1, i + Len(k)) = k

-----------------------------------------------------------------------------
(* Visualizer.extract_triplets *)

TRIPLET == <<"<triplet>">>
SUBJ == <<"<subj>">>
OBJ == <<"<obj>">>

\* {'head': subject.strip(), 'type': relation.strip(), 'tail': object_.strip()}
TripleSwapped(s, r, o) == [head |-> Strip(s), type |-> Strip(o), tail |-> Strip(r)]
Triple(s, r, o) == [head |-> Strip(s), type |-> Strip(r), tail |-> Strip(o)]

\* the decoder's locals before the loop
DecoderInit ==
    [triplets |-> <<>>, subject |-> <<>>, relation |-> <<>>, object_ |-> <<>>,
     current |-> "x"]

\* text.strip(), the three replace calls and split()
Tokens(t) == Split(Remove(Remove(Remove(Strip(t), "<s>"), "<pad>"), "</s>"))

\* the branch  token == "<triplet>"
OnTripletResetsTail(d) ==
    [d EXCEPT !.current = "t",
              !.triplets = IF d.relation # <<>>
                           THEN Append(@, Triple(d.subject, d.relation, d.object_))
                           ELSE @,
              !.relation = <<>>,
              !.subject = <<>>,
              !.object_ = <<>>]
OnTripletNoReset(d) ==
    [d EXCEPT !.current = "t",
              !.triplets = IF d.relation # <<>>
                           THEN Append(@, Triple(d.subject, d.relation, d.object_))
                           ELSE @,
              !.subject = <<>>]
OnTriplet(d) ==
    [d EXCEPT !.current = "t",
              !.triplets = IF d.relation # <<>>
                           THEN Append(@, Triple(d.subject, d.relation, d.object_))
                           ELSE @,
              !.relation = <<>>,
              !.subject = <<>>]

\* the branch  token == "<subj>"
OnSubj(d) ==
    [d EXCEPT !.current = "s",
              !.triplets = IF d.relation # <<>>
                           THEN Append(@, Triple(d.subject, d.relation, d.object_))
                           ELSE @,
              !.object_ = <<>>]

\* the branch  token == "<obj>"
OnObj(d) == [d EXCEPT !.current = "o", !.relation = <<>>]

\* the else branch: the token goes to the accumulator current names
OnWord(d, token) ==
    IF d.current = "t" THEN [d EXCEPT !.subject = @ \o <<SP>> \o token]
    ELSE IF d.current = "s" THEN [d EXCEPT !.object_ = @ \o <<SP>> \o token]
    ELSE IF d.current = "o" THEN [d EXCEPT !.relation = @ \o <<SP>> \o token]
    ELSE d

\* one iteration of the for loop
DecodeStep(d, token) ==
    IF token = TRIPLET THEN OnTriplet(d)
    ELSE IF token = SUBJ THEN OnSubj(d)
    ELSE IF token = OBJ THEN OnObj(d)
    ELSE OnWord(d, token)

\* after the loop: the last triple, if all three accumulators are non-empty
DecodeEnd(d) ==
    IF d.subject # <<>> /\ d.relation # <<>> /\ d.object_ # <<>>
    THEN Append(d.triplets, Triple(d.subject, d.relation, d.object_))
    ELSE d.triplets

RECURSIVE DecodeFrom(_, _)
DecodeFrom(d, ts) == IF ts = <<>> THEN d ELSE DecodeFrom(DecodeStep(d, Head(ts)), Tail(ts))

\* extract_triplets(text)
extract_triplets(t) == DecodeEnd(DecodeFrom(DecoderInit, Tokens(t)))

-----------------------------------------------------------------------------
(* Inputs of the decoder *)

MaxTokens == 5
MaxGroups == 2

W_A == <<"A">>
W_B == <<"B">>
W_USE == <<"u", "s", "e">>
W_PARIS == <<"P", "a", "r", "i", "s">>
W_FRANCE == <<"F", "r", "a", "n", "c", "e">>
W_CAPITAL_OF == <<"c", "a", "p", "i", "t", "a", "l", "_", "o", "f">>

\* the tokens arbitrary inputs are made of
RawTokens == {TRIPLET, SUBJ, OBJ, <<"<s>">>, W_A, W_USE}

\* non-empty runs of non-marker tokens
Runs == {<<W_A>>, <<W_B, W_USE>>}

\* one group  <triplet> h <subj> t <obj> r
GroupSet ==
    [h : Runs, t : Runs, r : Runs]
        \cup {[h |-> <<W_PARIS>>, t |-> <<W_FRANCE>>, r |-> <<W_CAPITAL_OF>>]}

GroupTokens(g) == <<TRIPLET>> \o g.h \o <<SUBJ>> \o g.t \o <<OBJ>> \o g.r

RECURSIVE GroupsTokens(_)
GroupsTokens(gs) ==
    IF gs = <<>> THEN <<>> ELSE GroupTokens(Head(gs)) \o GroupsTokens(Tail(gs))

W_C == <<"C">>
W_R == <<"r">>
W_Q == <<"q">>

\* one group with no <subj> segment:  <triplet> h <obj> r
TaillessSet == [h : Runs \cup {<<W_C>>}, r : Runs \cup {<<W_Q>>}]

TaillessTokens(g) == <<TRIPLET>> \o g.h \o <<OBJ>> \o g.r

\* a well-formed group followed by a group with no <subj> segment
TaillessText(g, h) == JoinSp(GroupTokens(g) \o TaillessTokens(h))

\* the groups that come before a group with no <subj> segment
LeadingSet == GroupSet \cup {[h |-> <<W_A>>, t |-> <<W_B>>, r |-> <<W_R>>]}

\* the generator wraps its output as  <s>...</s>
Wrapped(wrap, s) == IF wrap THEN <<"<s>">> \o s \o <<"</s>">> ELSE s

SeqsUpTo(S, n) == UNION {[1..k -> S] : k \in 0..n}

-----------------------------------------------------------------------------
(* Visualizer.extract_triplets as a state machine *)

Decoder ==
    [triplets |-> triplets, subject |-> subject, relation |-> relation,
     object_ |-> object_, current |-> current]

SetDecoder(d) ==
    /\ triplets' = d.triplets
    /\ subject' = d.subject
    /\ relation' = d.relation
    /\ object_' = d.object_
    /\ current' = d.current

DecIdle ==
    /\ text = <<>> /\ groups = <<>> /\ toks = <<>> /\ di = 0 /\ dpc = "idle"
    /\ triplets = <<>> /\ subject = <<>> /\ relation = <<>> /\ object_ = <<>>
    /\ current = "x"

VisIdle ==
    /\ file = "idle" /\ articles = <<>> /\ ai = 0 /\ vpc = "idle"
    /\ chunksLeft = 0 /\ all_triples = <<>> /\ callFailed = FALSE
    /\ rels = <<>> /\ ri = 0
    /\ entity = {} /\ relationSet = {}
    /\ accepted = {} /\ handled = {} /\ failedCalls = {}

StoreEmpty == nodes = {} /\ edges = EmptyBag /\ nextId = 0

WkIdle == wtriple = <<>> /\ wpc = <<>> /\ wa = <<>> /\ wb = <<>> /\ wmissing = <<>>

PoolIdle ==
    /\ max_workers = 0
    /\ items = <<>> /\ si = 0 /\ ppc = "idle" /\ tstate = <<>> /\ trecord = <<>>
    /\ tfail = <<>> /\ results = <<>> /\ resultOf = <<>> /\ exArticles = <<>>

LouIdle ==
    /\ G = <<>> /\ lrun = 0 /\ lpc = "idle" /\ lg = <<>> /\ node2com = <<>>
    /\ todo = {} /\ modified = FALSE /\ cur_mod = 0 /\ new_mod = 0 /\ mod = 0
    /\ dendo = <<>> /\ partition1 = <<>> /\ partition2 = <<>>

\* Python's None, as a value that compares with the loaded descriptions
None == [none |-> TRUE]

CgIdle ==
    /\ gfile = "idle" /\ graph_data = None /\ gpc = "idle" /\ gi = 0
    /\ nxG = <<>> /\ graised = "none"

InitDecode ==
    /\ \/ \E k \in 1..MaxGroups : \E gs \in [1..k -> GroupSet] : \E wrap \in BOOLEAN :
            /\ groups = gs
            /\ text = Wrapped(wrap, JoinSp(GroupsTokens(gs)))
       \/ \E ts \in SeqsUpTo(RawTokens, MaxTokens) :
            /\ groups = <<>>
            /\ text = JoinSp(ts)
       \/ \E g \in LeadingSet : \E h \in TaillessSet :
            /\ groups = <<>>
            /\ text = TaillessText(g, h)
    /\ toks = <<>> /\ di = 0 /\ dpc = "start"
    /\ triplets = <<>> /\ subject = <<>> /\ relation = <<>> /\ object_ = <<>>
    /\ current = "x"
    /\ VisIdle /\ StoreEmpty /\ WkIdle /\ PoolIdle /\ LouIdle /\ CgIdle

\* lines 129-133: the locals, and the token list of the for loop
DecodeStart ==
    /\ dpc = "start"
    /\ toks' = Tokens(text)
    /\ di' = 1
    /\ SetDecoder(DecoderInit)
    /\ dpc' = "loop"
    /\ UNCHANGED <<text, groups, notDec>>

\* lines 133-154: one token
DecodeToken ==
    /\ dpc = "loop"
    /\ di <= Len(toks)
    /\ SetDecoder(DecodeStep(Decoder, toks[di]))
    /\ di' = di + 1
    /\ UNCHANGED <<text, groups, toks, dpc, notDec>>

\* lines 155-157: the last triple and the return
DecodeReturn ==
    /\ dpc = "loop"
    /\ di > Len(toks)
    /\ triplets' = DecodeEnd(Decoder)
    /\ dpc' = "done"
    /\ UNCHANGED <<text, groups, toks, di, subject, relation, object_, current, notDec>>

NextDecode == DecodeStart \/ DecodeToken \/ DecodeReturn

SpecDecode == InitDecode /\ [][NextDecode]_vars

-----------------------------------------------------------------------------
(* Claims about the decoder *)

ExpectedTriples ==
    [i \in 1..Len(groups) |->
        [head |-> JoinSp(groups[i].h), type |-> JoinSp(groups[i].r),
         tail |-> JoinSp(groups[i].t)]]

\* C1: for an input made of k >= 1 well-formed groups
\* <triplet> h_i <subj> t_i <obj> r_i, extract_triplets returns exactly the k
\* triples {head: h_i, type: r_i, tail: t_i}, in the order of the groups.
C1_WellFormedGroupsDecoded ==
    (dpc = "done" /\ groups # <<>>) => triplets = ExpectedTriples

C1_Witness ==
    /\ dpc = "done"
    /\ Len(groups) = MaxGroups
    /\ Len(triplets) = MaxGroups
    /\ triplets[1] # triplets[2]

\* a <triplet> marker earlier in the input with no <obj> marker between it and
\* position i
TripletBeforeNoObj(i) ==
    \E j \in 1..(i - 1) :
        /\ toks[j] = TRIPLET
        /\ \A k \in (j + 1)..(i - 1) : toks[k] # OBJ

\* C2: processing one token appends at most one triple; a <triplet> marker with
\* a relation pending emits exactly that pending triple; and a <triplet> marker
\* that follows another <triplet> marker with no <obj> in between emits nothing.
C2_TripletClosesOnce ==
    [][(dpc = "loop" /\ di <= Len(toks)) =>
        /\ Len(triplets') <= Len(triplets) + 1
        /\ (toks[di] = TRIPLET /\ relation # <<>>) =>
                triplets' = Append(triplets, Triple(subject, relation, object_))
        /\ (toks[di] = TRIPLET /\ TripletBeforeNoObj(di)) => triplets' = triplets
      ]_vars

C2_Witness ==
    /\ dpc = "loop"
    /\ di >= 2 /\ di <= Len(toks)
    /\ toks[di - 1] = TRIPLET /\ toks[di] = TRIPLET
    /\ Len(triplets) = 1

\* s is a prefix of t
IsPrefix(s, t) == Len(s) <= Len(t) /\ SubSeq(t, 1, Len(s)) = s

\* C13: a <triplet> marker empties the head and the relation and leaves the
\* tail as it is; the tail only ever loses text at a <subj> marker, and a
\* pending relation is only dropped at an <obj> marker or at a <triplet> marker
\* that emits it; so for a well-formed group g followed by a group h with a
\* head and a relation but no <subj> segment, extract_triplets returns g's
\* triple followed by (h's head, h's relation, g's tail).
C13_TripletKeepsTail ==
    [][/\ (dpc = "loop" /\ di <= Len(toks)) =>
            /\ toks[di] = TRIPLET =>
                    (object_' = object_ /\ subject' = <<>> /\ relation' = <<>>)
            /\ toks[di] # SUBJ => IsPrefix(object_, object_')
            /\ (relation # <<>> /\ relation' = <<>>) =>
                    \/ toks[di] = OBJ
                    \/ toks[di] = TRIPLET /\ Len(triplets') = Len(triplets) + 1
       /\ (dpc = "loop" /\ di > Len(toks)) =>
            \A g \in LeadingSet : \A h \in TaillessSet :
                text = TaillessText(g, h) =>
                    triplets' =
                        <<[head |-> JoinSp(g.h), type |-> JoinSp(g.r), tail |-> JoinSp(g.t)],
                          [head |-> JoinSp(h.h), type |-> JoinSp(h.r), tail |-> JoinSp(g.t)]>>
      ]_vars

\* '<triplet> A <subj> B <obj> r <triplet> C <obj> q' gave (A, r, B), (C, q, B)
C13_Witness ==
    /\ dpc = "done"
    /\ text = TaillessText([h |-> <<W_A>>, t |-> <<W_B>>, r |-> <<W_R>>],
                           [h |-> <<W_C>>, r |-> <<W_Q>>])
    /\ triplets = <<[head |-> W_A, type |-> W_R, tail |-> W_B],
                    [head |-> W_C, type |-> W_Q, tail |-> W_B]>>

-----------------------------------------------------------------------------
(* Visualizer.extract_causal_relationships *)

ChunkSize == 1000
NumReturn == 3

\* self.causal_keywords
causal_keywords ==
    {<<"e", "n", "c", "o", "d", "e", "s">>,
     <<"u", "s", "e">>,
     <<"u", "s", "e", "s">>,
     <<"b", "a", "s", "e", "d", " ", "o", "n">>,
     <<"c", "o", "n", "n", "e", "c", "t", "s", " ", "w", "i", "t", "h">>,
     <<"e", "n", "d", "e", "m", "i", "c", " ", "t", "o">>,
     <<"i", "n", "f", "l", "u", "e", "n", "c", "e", "d", " ", "b", "y">>,
     <<"f", "o", "l", "l", "o", "w", "e", "d", " ", "b", "y">>,
     <<"f", "o", "l", "l", "o", "w", "s">>,
     <<"h", "a", "s", " ", "c", "a", "u", "s", "e">>,
     <<"h", "a", "s", " ", "e", "f", "f", "e", "c", "t">>,
     <<"i", "n", "c", "e", "p", "t", "i", "o", "n">>}

\* any(k in t['type'].lower() for k in self.causal_keywords)
AcceptCaseSensitive(t) == \E k \in causal_keywords : Contains(t.type, k)
AcceptAll(t) == TRUE
Accept(t) ==
    LET lowered == Lower(t.type)
    IN  \E k \in causal_keywords : Contains(lowered, k)

\* line 120: the accepted triples, in order
CausalOnly(ts) == SelectSeq(ts, Accept)

\* line 91: one chunk per i in range(0, len(text), 1000)
NumChunks(len) == (len + ChunkSize - 1) \div ChunkSize

\* lines 122-124: what the except branch returns
PartialOnFailure(ts) == CausalOnly(ts)
OnFailure(ts) == <<>>

-----------------------------------------------------------------------------
(* The graph store: the Cypher query of Visualizer.process *)

\* MERGE (n:Entity {name: $name}): match, and create only if nothing matched
CreateNode(ns, id, name) == ns \cup {[id |-> id, name |-> name]}
MergeNode(ns, id, name) ==
    IF \E n \in ns : n.name = name THEN ns ELSE ns \cup {[id |-> id, name |-> name]}

\* MERGE (a)-[:RELATION {type: $relation}]->(b), for every matched row (a, b)
CreateEdges(es, A, B, r) ==
    es (+) SetToBag({[s |-> a.id, t |-> b.id, type |-> r] : a \in A, b \in B})
MergeEdges(es, A, B, r) ==
    es (+) SetToBag({e \in {[s |-> a.id, t |-> b.id, type |-> r] : a \in A, b \in B} :
                        ~BagIn(e, es)})

\* the whole query, as one transaction
Upsert(st, h, t, r) ==
    LET n1 == MergeNode(st.nodes, st.nextId, h)
        id1 == st.nextId + Cardinality(n1 \ st.nodes)
        n2 == MergeNode(n1, id1, t)
        id2 == id1 + Cardinality(n2 \ n1)
        A == {n \in n2 : n.name = h}
        B == {n \in n2 : n.name = t}
    IN  [nodes |-> n2, edges |-> MergeEdges(st.edges, A, B, r), nextId |-> id2]

Store == [nodes |-> nodes, edges |-> edges, nextId |-> nextId]

-----------------------------------------------------------------------------
(* Inputs of Visualizer.process *)

MaxArticles == 2

W_HAS == <<"H", "a", "s">>
W_EFFECT == <<"e", "f", "f", "e", "c", "t">>
W_ON == <<"o", "n">>
W_LOCATED == <<"l", "o", "c", "a", "t", "e", "d">>
W_IN == <<"i", "n">>

\* what the generator may decode to
GenMixed ==
    <<"<s>">> \o JoinSp(<<TRIPLET, W_A, SUBJ, W_B, OBJ, W_LOCATED, W_IN,
                          TRIPLET, W_B, SUBJ, W_A, OBJ, W_HAS, W_EFFECT, W_ON>>) \o <<"</s>">>
GenGap ==
    <<"<s>">> \o JoinSp(<<TRIPLET, W_A, SUBJ, OBJ, W_USE, TRIPLET, W_B>>) \o <<"</s>">>
GenNothing == <<"<s>", "</s>", "<pad>">>

GenTexts == {GenMixed, GenGap, GenNothing}

\* an article is its content's length; 0 stands for '' and for None
ContentLens == {0, 1, ChunkSize + 1}
ArticleSet == [content : ContentLens]

\* extract_triplets on each text the generator may decode to
GenTriples == [g \in GenTexts |-> extract_triplets(g)]

\* lines 115-117 for one chunk: the triples of every sentence, in order
RECURSIVE TriplesOf(_)
TriplesOf(preds) ==
    IF preds = <<>> THEN <<>>
    ELSE GenTriples[Head(preds)] \o TriplesOf(Tail(preds))

-----------------------------------------------------------------------------
(* Visualizer.process as a state machine *)

InitVis ==
    /\ \/ file \in [status : {"ok"}, data : SeqsUpTo(ArticleSet, MaxArticles)]
       \/ file \in [status : {"missing", "malformed"}, data : {<<>>}]
    /\ articles = <<>> /\ ai = 0 /\ vpc = "read"
    /\ chunksLeft = 0 /\ all_triples = <<>> /\ callFailed = FALSE
    /\ rels = <<>> /\ ri = 0
    /\ entity = {} /\ relationSet = {}
    /\ accepted = {} /\ handled = {} /\ failedCalls = {}
    /\ StoreEmpty
    /\ DecIdle /\ WkIdle /\ PoolIdle /\ LouIdle /\ CgIdle

\* lines 46-55 and 59
ReadJson ==
    /\ vpc = "read"
    /\ articles' = IF file.status = "ok" THEN file.data ELSE articles
    /\ ai' = 1
    /\ vpc' = "article"
    /\ UNCHANGED <<file, chunksLeft, all_triples, callFailed, rels, ri, nodes, edges,
                   nextId, entity, relationSet, accepted, handled, failedCalls, notVis>>

\* lines 60-61, content falsy
SkipArticle ==
    /\ vpc = "article"
    /\ ai <= Len(articles)
    /\ articles[ai].content = 0
    /\ ai' = ai + 1
    /\ handled' = handled \cup {ai}
    /\ UNCHANGED <<file, articles, vpc, chunksLeft, all_triples, callFailed, rels, ri,
                   nodes, edges, nextId, entity, relationSet, accepted, failedCalls, notVis>>

\* lines 60-64 and 89-98: the call of extract_causal_relationships begins
BeginExtract ==
    /\ vpc = "article"
    /\ ai <= Len(articles)
    /\ articles[ai].content # 0
    /\ chunksLeft' = NumChunks(articles[ai].content)
    /\ all_triples' = <<>>
    /\ callFailed' = FALSE
    /\ rels' = <<>>
    /\ ri' = 0
    /\ vpc' = "chunk"
    /\ UNCHANGED <<file, articles, ai, nodes, edges, nextId, entity, relationSet,
                   accepted, handled, failedCalls, notVis>>

\* lines 100-117: one chunk generated and decoded
GenerateChunk ==
    /\ vpc = "chunk"
    /\ chunksLeft > 0
    /\ \E decoded_preds \in [1..NumReturn -> GenTexts] :
            all_triples' = all_triples \o TriplesOf(decoded_preds)
    /\ chunksLeft' = chunksLeft - 1
    /\ UNCHANGED <<file, articles, ai, vpc, callFailed, rels, ri, nodes, edges, nextId,
                   entity, relationSet, accepted, handled, failedCalls, notVis>>

\* lines 103-112 raise, lines 122-124
GenerateFails ==
    /\ vpc = "chunk"
    /\ chunksLeft > 0
    /\ callFailed' = TRUE
    /\ failedCalls' = failedCalls \cup {ai}
    /\ rels' = OnFailure(all_triples)
    /\ ri' = 1
    /\ vpc' = "store"
    /\ UNCHANGED <<file, articles, ai, chunksLeft, all_triples, nodes, edges, nextId,
                   entity, relationSet, accepted, handled, notVis>>

\* line 120
ExtractReturn ==
    /\ vpc = "chunk"
    /\ chunksLeft = 0
    /\ rels' = CausalOnly(all_triples)
    /\ accepted' = accepted \cup {rels'[i] : i \in DOMAIN rels'}
    /\ ri' = 1
    /\ vpc' = "store"
    /\ UNCHANGED <<file, articles, ai, chunksLeft, all_triples, callFailed, nodes, edges,
                   nextId, entity, relationSet, handled, failedCalls, notVis>>

\* lines 66-79: one relationship stored
StoreRelationship ==
    /\ vpc = "store"
    /\ ri <= Len(rels)
    /\ LET entity_one == rels[ri].head
           entity_two == rels[ri].tail
           rel == rels[ri].type
           st == Upsert(Store, entity_one, entity_two, rel)
       IN  /\ entity' = entity \cup {entity_one, entity_two}
           /\ relationSet' = relationSet \cup {rel}
           /\ nodes' = st.nodes
           /\ edges' = st.edges
           /\ nextId' = st.nextId
    /\ ri' = ri + 1
    /\ UNCHANGED <<file, articles, ai, vpc, chunksLeft, all_triples, callFailed, rels,
                   accepted, handled, failedCalls, notVis>>

\* the loop body of line 60 ends
EndArticle ==
    /\ vpc = "store"
    /\ ri > Len(rels)
    /\ handled' = handled \cup {ai}
    /\ ai' = ai + 1
    /\ vpc' = "article"
    /\ UNCHANGED <<file, articles, chunksLeft, all_triples, callFailed, rels, ri, nodes,
                   edges, nextId, entity, relationSet, accepted, failedCalls, notVis>>

\* line 80
ProcessReturn ==
    /\ vpc = "article"
    /\ ai > Len(articles)
    /\ vpc' = "done"
    /\ UNCHANGED <<file, articles, ai, chunksLeft, all_triples, callFailed, rels, ri,
                   nodes, edges, nextId, entity, relationSet, accepted, handled, failedCalls, notVis>>

Next ==
    \/ ReadJson \/ SkipArticle \/ BeginExtract \/ GenerateChunk \/ GenerateFails
    \/ ExtractReturn \/ StoreRelationship \/ EndArticle \/ ProcessReturn

Spec == InitVis /\ [][Next]_vars

-----------------------------------------------------------------------------
(* Claims about Visualizer.process *)

NonEmptyFields(t) == t.head # <<>> /\ t.type # <<>> /\ t.tail # <<>>

\* C3: no triple with an empty head, type or tail is returned by the decoder,
\* and none is written to the store as an entity name or an edge.
C3_NoEmptyFieldReturnedOrStored ==
    /\ \A i \in DOMAIN all_triples : NonEmptyFields(all_triples[i])
    /\ \A n \in nodes : n.name # <<>>
    /\ \A e \in BagToSet(edges) : e.type # <<>>

\* the type, lower-cased, contains a vocabulary phrase as a contiguous substring
MatchesVocabulary(ty) ==
    \E k \in causal_keywords :
        \E i \in 1..Len(ty) :
            /\ i + Len(k) - 1 <= Len(ty)
            /\ \A j \in 1..Len(k) : LowerChar(ty[i + j - 1]) = k[j]

TypeHasEffectOn == JoinSp(<<W_HAS, W_EFFECT, W_ON>>)
TypeLocatedIn == JoinSp(<<W_LOCATED, W_IN>>)

Elems(sq) == {sq[i] : i \in DOMAIN sq}

\* C4: extract_causal_relationships returns exactly the decoded triples whose
\* type, lower-cased, contains a vocabulary phrase, in order; a triple of type
\* "Has effect on" is returned, one of type "located in" never is.
C4_FilterIffTypeContainsPhrase ==
    /\ (vpc # "chunk" /\ ~callFailed) =>
            /\ rels = SelectSeq(all_triples, LAMBDA t : MatchesVocabulary(t.type))
            /\ \A i \in DOMAIN all_triples :
                    all_triples[i].type = TypeHasEffectOn => all_triples[i] \in Elems(rels)
    /\ \A t \in accepted : MatchesVocabulary(t.type) /\ t.type # TypeLocatedIn

C4_Witness ==
    /\ vpc = "store" /\ ~callFailed
    /\ \E t \in Elems(rels) : t.type = TypeHasEffectOn
    /\ \E t \in Elems(all_triples) : t.type = TypeLocatedIn

\* C5: a call of extract_causal_relationships that fails on a chunk returns the
\* empty list, whatever the earlier chunks decoded to, and process goes on: it
\* ends with every article handled.
C5_FailureReturnsEmptyAndGoesOn ==
    /\ callFailed => rels = <<>>
    /\ (vpc = "store" /\ ai \in failedCalls) => callFailed
    /\ vpc = "done" => handled = 1..Len(articles)
    /\ vpc \in {"article", "done"} => failedCalls \subseteq handled

C5_Witness ==
    /\ vpc = "done"
    /\ failedCalls = {1, 2}
    /\ \E t \in Elems(all_triples) : MatchesVocabulary(t.type)
    /\ Len(articles) = 2

NameOf(id) == (CHOOSE n \in nodes : n.id = id).name

\* the stored edges, by the names of their ends
StoredKeys ==
    {[head |-> NameOf(e.s), type |-> e.type, tail |-> NameOf(e.t)] : e \in BagToSet(edges)}

\* C6: starting from an empty store, the stored edges are exactly the distinct
\* triples that line 120 returned, every one of them causal; when one causal
\* triple was returned, one edge is stored.
C6_OnlyCausalTriplesStored ==
    /\ StoredKeys \subseteq accepted
    /\ vpc \in {"article", "done"} => StoredKeys = accepted
    /\ \A k \in StoredKeys : MatchesVocabulary(k.type)
    /\ (vpc \in {"article", "done"} /\ Cardinality(accepted) = 1) => BagCardinality(edges) = 1

C6_Witness ==
    /\ vpc = "done"
    /\ BagCardinality(edges) = 1
    /\ \E k \in StoredKeys : k.type = TypeHasEffectOn
    /\ \E t \in Elems(all_triples) : t.type = TypeLocatedIn

\* the triples stored so far by the loop of lines 66-79 for the first article
StoredSoFar == {rels[i] : i \in 1..(ri - 1)}

\* C7: after any sequence of upserts the store holds one entity per name and one
\* edge per (source, target, type); the store after N upserts is the one the set
\* of upserted triples gives, however often each was applied.
C7_UpsertIdempotent ==
    /\ \A n1, n2 \in nodes : n1.name = n2.name => n1 = n2
    /\ \A e \in BagToSet(edges) : CopiesIn(e, edges) = 1
    /\ {n.name : n \in nodes} = entity
    /\ (ai = 1 /\ vpc = "store") =>
            /\ StoredKeys = StoredSoFar
            /\ {n.name : n \in nodes} = {t.head : t \in StoredSoFar} \cup {t.tail : t \in StoredSoFar}

C7_Witness ==
    /\ ai = 1 /\ vpc = "store"
    /\ ri = 5
    /\ Cardinality(StoredSoFar) = 2
    /\ BagCardinality(edges) = 2
    /\ Cardinality(nodes) = 3

-----------------------------------------------------------------------------
(* The query of lines 75-79 issued by several writers at once.  The code      *)
(* takes no lock and declares no uniqueness constraint, so each MERGE clause  *)
(* is a match followed, when nothing matched, by a create.                    *)

NumWriters == 2

Writers == 1..NumWriters

\* the relationships the writers store
WriterTriples == [head : {W_A, W_B}, type : {W_USE}, tail : {W_A, W_B}]

NodeIds(name) == {n.id : n \in {x \in nodes : x.name = name}}

InitWriters ==
    /\ wtriple \in [Writers -> WriterTriples]
    /\ wpc = [w \in Writers |-> "matchA"]
    /\ wa = [w \in Writers |-> {}]
    /\ wb = [w \in Writers |-> {}]
    /\ wmissing = [w \in Writers |-> {}]
    /\ StoreEmpty
    /\ DecIdle /\ VisIdle /\ PoolIdle /\ LouIdle /\ CgIdle

\* MERGE (a:Entity {name: $entity_one}), the match
MatchA(w) ==
    /\ wpc[w] = "matchA"
    /\ wa' = [wa EXCEPT ![w] = NodeIds(wtriple[w].head)]
    /\ wpc' = [wpc EXCEPT ![w] = IF NodeIds(wtriple[w].head) = {} THEN "createA" ELSE "matchB"]
    /\ UNCHANGED <<wtriple, wb, wmissing, storeVars, notWk>>

\* MERGE (a:Entity {name: $entity_one}), the create
CreateA(w) ==
    /\ wpc[w] = "createA"
    /\ nodes' = nodes \cup {[id |-> nextId, name |-> wtriple[w].head]}
    /\ nextId' = nextId + 1
    /\ wa' = [wa EXCEPT ![w] = {nextId}]
    /\ wpc' = [wpc EXCEPT ![w] = "matchB"]
    /\ UNCHANGED <<wtriple, wb, wmissing, edges, notWk>>

\* MERGE (b:Entity {name: $entity_two}), the match
MatchB(w) ==
    /\ wpc[w] = "matchB"
    /\ wb' = [wb EXCEPT ![w] = NodeIds(wtriple[w].tail)]
    /\ wpc' = [wpc EXCEPT ![w] = IF NodeIds(wtriple[w].tail) = {} THEN "createB" ELSE "matchEdge"]
    /\ UNCHANGED <<wtriple, wa, wmissing, storeVars, notWk>>

\* MERGE (b:Entity {name: $entity_two}), the create
CreateB(w) ==
    /\ wpc[w] = "createB"
    /\ nodes' = nodes \cup {[id |-> nextId, name |-> wtriple[w].tail]}
    /\ nextId' = nextId + 1
    /\ wb' = [wb EXCEPT ![w] = {nextId}]
    /\ wpc' = [wpc EXCEPT ![w] = "matchEdge"]
    /\ UNCHANGED <<wtriple, wa, wmissing, edges, notWk>>

\* MERGE (a)-[:RELATION {type: $relation}]->(b), the match
MatchEdge(w) ==
    LET rows == {[s |-> a, t |-> b, type |-> wtriple[w].type] : a \in wa[w], b \in wb[w]}
        missing == {e \in rows : ~BagIn(e, edges)}
    IN  /\ wpc[w] = "matchEdge"
        /\ wmissing' = [wmissing EXCEPT ![w] = missing]
        /\ wpc' = [wpc EXCEPT ![w] = IF missing = {} THEN "done" ELSE "createEdge"]
        /\ UNCHANGED <<wtriple, wa, wb, storeVars, notWk>>

\* MERGE (a)-[:RELATION {type: $relation}]->(b), the create
CreateEdge(w) ==
    /\ wpc[w] = "createEdge"
    /\ edges' = edges (+) SetToBag(wmissing[w])
    /\ wpc' = [wpc EXCEPT ![w] = "done"]
    /\ UNCHANGED <<wtriple, wa, wb, wmissing, nodes, nextId, notWk>>

NextWriters ==
    \E w \in Writers :
        \/ MatchA(w) \/ CreateA(w) \/ MatchB(w) \/ CreateB(w)
        \/ MatchEdge(w) \/ CreateEdge(w)

SpecWriters == InitWriters /\ [][NextWriters]_vars

-----------------------------------------------------------------------------
(* ArticleExtractor.process: the thread pool *)

MaxRows == 2

\* the rows of the CSV file; two of them share a url
RowSet ==
    {[website_name |-> "wikipedia", url |-> "u1"],
     [website_name |-> "investopedia", url |-> "u2"],
     [website_name |-> "other", url |-> "u1"]}

\* what the outside world does to one article: the request, the page's
\* structure, its text, the summarization call
Envs ==
    [fetch : {"ok", "fail"}, parse : {"ok", "fail"}, content : {"", "text"},
     summary : {"ok", "fail"}]

\* the except branches of extractor.py: lines 169-176, 212-219, 257-264
ErrorRecord(url, e) ==
    [url |-> url, title |-> "None", content |-> "None", summary |-> "None", error |-> e]

\* what stands for a call that raised instead of returning
RAISED == "<raised>"

\* Summarizer.get_summary: the except branch of lines 44-46 turns a failed call
\* into the placeholder text
SummaryRaises(env) == IF env.summary = "fail" THEN RAISED ELSE "summary"
get_summary(env) ==
    IF env.summary = "fail"
    THEN "Error generating summary. (Ignore this if you are a LLM.)"
    ELSE "summary"

\* extract_article; whatever the try block raises ends in the except branch
extract_article(url, env) ==
    IF env.fetch = "fail" THEN ErrorRecord(url, "fetch")
    ELSE IF env.parse = "fail" THEN ErrorRecord(url, "parse")
    ELSE IF env.content # "" /\ get_summary(env) = RAISED THEN ErrorRecord(url, "summary")
    ELSE [url |-> url, title |-> "title", content |-> env.content,
          summary |-> IF env.content # "" THEN get_summary(env) ELSE "None"]

\* extract_wiki_article and extract_investopedia_article, which differ only in
\* the element id they look for
extract_site_article(url, env) ==
    IF env.fetch = "fail" THEN ErrorRecord(url, "fetch")
    ELSE IF env.parse = "fail" THEN ErrorRecord(url, "parse")
    ELSE IF get_summary(env) = RAISED THEN ErrorRecord(url, "summary")
    ELSE [url |-> url, title |-> "title", content |-> env.content,
          summary |-> get_summary(env)]

\* lines 52-61
fetch_and_extract(website_name, url, env) ==
    IF website_name = "wikipedia" THEN extract_site_article(url, env)
    ELSE IF website_name = "investopedia" THEN extract_site_article(url, env)
    ELSE extract_article(url, env)

\* the first stage that failed among those the extraction ran
FailedStage(website_name, env) ==
    IF env.fetch = "fail" THEN "fetch"
    ELSE IF env.parse = "fail" THEN "parse"
    ELSE IF env.summary = "fail" /\ (website_name # "other" \/ env.content # "")
         THEN "summary"
    ELSE "none"

InitPool ==
    /\ max_workers \in 1..MaxRows
    /\ items \in SeqsUpTo(RowSet, MaxRows)
    /\ si = 1
    /\ ppc = "submit"
    /\ tstate = <<>> /\ trecord = <<>> /\ tfail = <<>>
    /\ results = <<>> /\ resultOf = <<>> /\ exArticles = <<>>
    /\ DecIdle /\ VisIdle /\ StoreEmpty /\ WkIdle /\ LouIdle /\ CgIdle

Running == {i \in DOMAIN tstate : tstate[i] = "running"}
Queued == {i \in DOMAIN tstate : tstate[i] = "queued"}

\* line 68: executor.submit for the next row
Submit ==
    /\ ppc = "submit"
    /\ si <= Len(items)
    /\ tstate' = Append(tstate, "queued")
    /\ trecord' = Append(trecord, <<>>)
    /\ tfail' = Append(tfail, "none")
    /\ si' = si + 1
    /\ UNCHANGED <<max_workers, items, ppc, results, resultOf, exArticles, notPool>>

\* line 68 ends, line 69: as_completed
AllSubmitted ==
    /\ ppc = "submit"
    /\ si > Len(items)
    /\ ppc' = "collect"
    /\ UNCHANGED <<max_workers, items, si, tstate, trecord, tfail, results, resultOf, exArticles, notPool>>

\* a free worker thread takes the oldest queued call
StartTask ==
    /\ Cardinality(Running) < max_workers
    /\ Queued # {}
    /\ LET i == CHOOSE q \in Queued : \A r \in Queued : q <= r
       IN  tstate' = [tstate EXCEPT ![i] = "running"]
    /\ UNCHANGED <<max_workers, items, si, ppc, trecord, tfail, results, resultOf, exArticles, notPool>>

\* lines 52-61: the call runs to its end in its thread
FinishTask(i) ==
    /\ tstate[i] = "running"
    /\ \E env \in Envs :
        /\ trecord' = [trecord EXCEPT ![i] =
                           fetch_and_extract(items[i].website_name, items[i].url, env)]
        /\ tfail' = [tfail EXCEPT ![i] = FailedStage(items[i].website_name, env)]
    /\ tstate' = [tstate EXCEPT ![i] = "finished"]
    /\ UNCHANGED <<max_workers, items, si, ppc, results, resultOf, exArticles, notPool>>

\* lines 69-71: as_completed yields a finished future, its result is appended
Collect(i) ==
    /\ ppc = "collect"
    /\ tstate[i] = "finished"
    /\ results' = Append(results, trecord[i])
    /\ resultOf' = Append(resultOf, i)
    /\ tstate' = [tstate EXCEPT ![i] = "collected"]
    /\ UNCHANGED <<max_workers, items, si, ppc, trecord, tfail, exArticles, notPool>>

\* lines 72-73
PoolReturn ==
    /\ ppc = "collect"
    /\ \A i \in DOMAIN tstate : tstate[i] = "collected"
    /\ exArticles' = results
    /\ ppc' = "done"
    /\ UNCHANGED <<max_workers, items, si, tstate, trecord, tfail, results, resultOf, notPool>>

NextPool ==
    \/ Submit \/ AllSubmitted \/ StartTask
    \/ (\E i \in DOMAIN tstate : FinishTask(i))
    \/ (\E i \in DOMAIN tstate : Collect(i))
    \/ PoolReturn

SpecPool == InitPool /\ [][NextPool]_vars

-----------------------------------------------------------------------------
(* Claims about ArticleExtractor.process *)

\* process is not stuck before its return, and its result has one record per
\* row, each with the url of its row
OneRecordPerRow ==
    /\ ppc # "done" => ENABLED NextPool
    /\ ppc = "done" =>
        /\ Len(exArticles) = Len(items)
        /\ Len(resultOf) = Len(items)
        /\ {resultOf[k] : k \in DOMAIN resultOf} = DOMAIN items
        /\ \A k \in DOMAIN exArticles : exArticles[k].url = items[resultOf[k]].url

HasError(rec) == "error" \in DOMAIN rec

\* C9 as stated: one record per row, and a row's record carries an error
\* exactly when its fetch, parse or summarization failed.
C9_EveryFailureIsAnError ==
    /\ OneRecordPerRow
    /\ ppc = "done" =>
        \A k \in DOMAIN exArticles :
            HasError(exArticles[k]) <=> tfail[resultOf[k]] # "none"

\* C9, amended: one record per row, whatever the pool size and the order of
\* completion; a row's record carries an error exactly when its fetch or its
\* parse failed; a row whose summarization failed has no error and has the
\* summarizer's placeholder text as its summary.
C9_FetchAndParseFailuresAreErrors ==
    /\ OneRecordPerRow
    /\ ppc = "done" =>
        \A k \in DOMAIN exArticles :
            /\ HasError(exArticles[k]) <=> tfail[resultOf[k]] \in {"fetch", "parse"}
            /\ tfail[resultOf[k]] = "summary" =>
                    exArticles[k].summary = "Error generating summary. (Ignore this if you are a LLM.)"

C9_Witness ==
    /\ ppc = "done"
    /\ Len(items) = 2
    /\ max_workers = 2
    /\ resultOf = <<2, 1>>
    /\ tfail[1] = "fetch"
    /\ tfail[2] = "summary"

-----------------------------------------------------------------------------
(* Clustering.cluster_graph: community_louvain.best_partition(G), called      *)
(* with no random_state, so that every pass visits the nodes, and every node  *)
(* its neighbouring communities, in an order drawn from numpy's global        *)
(* generator.  Modularity values are kept times 4 * total_weight^2 and gains  *)
(* times 2 * total_weight, which keeps them integers and their order.         *)

MaxNodes == 4

Range(f) == {f[x] : x \in DOMAIN f}

RECURSIVE SumF(_, _)
\* the sum of f over S
SumF(f, S) ==
    IF S = {} THEN 0
    ELSE LET x == CHOOSE y \in S : TRUE IN f[x] + SumF(f, S \ {x})

Names(g) == Range(g.nodes)

\* the undirected unweighted graphs on the nodes 1..n, in that order
Graphs ==
    UNION {
        {[nodes |-> [i \in 1..n |-> i],
          w |-> [p \in (1..n) \X (1..n) |->
                    IF <<p[1], p[2]>> \in E \/ <<p[2], p[1]>> \in E THEN 1 ELSE 0]] :
            E \in SUBSET {q \in (1..n) \X (1..n) : q[1] < q[2]}} :
        n \in 1..MaxNodes}

\* graph.degree(node, weight): a self-loop counts twice
GDegree(g, u) ==
    SumF([v \in Names(g) |-> IF v = u THEN 2 * g.w[<<u, u>>] ELSE g.w[<<u, v>>]], Names(g))

\* graph.size(weight): the total weight of the edges
TotalWeight(g) ==
    LET ps == {p \in Names(g) \X Names(g) : p[1] <= p[2]}
    IN  SumF([p \in ps |-> g.w[p]], ps)

\* Status.init: the k-th node of the graph starts in community k - 1
InitStatus(g) ==
    [u \in Names(g) |-> (CHOOSE i \in DOMAIN g.nodes : g.nodes[i] = u) - 1]

\* status.degrees[c]
ComDegree(g, n2c, c) ==
    SumF([u \in Names(g) |-> IF n2c[u] = c THEN GDegree(g, u) ELSE 0], Names(g))

\* status.internals[c]
ComInternal(g, n2c, c) ==
    LET ps == {p \in Names(g) \X Names(g) : p[1] <= p[2] /\ n2c[p[1]] = c /\ n2c[p[2]] = c}
    IN  SumF([p \in ps |-> g.w[p]], ps)

\* __modularity(status), times 4 * total_weight^2
Modularity(g, n2c) ==
    LET cs == Range(n2c)
    IN  SumF([c \in cs |-> 4 * TotalWeight(g) * ComInternal(g, n2c, c)
                              - ComDegree(g, n2c, c) * ComDegree(g, n2c, c)], cs)

\* __neighcom: the weight from u to each community of its neighbours
NeighComs(g, n2c, u) == {n2c[v] : v \in {x \in Names(g) : x # u /\ g.w[<<u, x>>] > 0}}
NeighWeight(g, n2c, u, c) ==
    SumF([v \in Names(g) |-> IF v # u /\ n2c[v] = c THEN g.w[<<u, v>>] ELSE 0], Names(g))

\* the increase of __one_level for moving u to c, times 2 * total_weight
Increase(g, n2c, u, c) ==
    LET degu == GDegree(g, u)
        own == n2c[u]
        degAfter(d) == ComDegree(g, n2c, d) - (IF d = own THEN degu ELSE 0)
        remove_cost == degAfter(own) * degu - 2 * TotalWeight(g) * NeighWeight(g, n2c, u, own)
    IN  remove_cost + 2 * TotalWeight(g) * NeighWeight(g, n2c, u, c) - degAfter(c) * degu

\* the communities best_com can end as: the loop keeps the first community of
\* the shuffled list whose increase is the largest, if that is positive
BestComs(g, n2c, u) ==
    LET cs == NeighComs(g, n2c, u)
        best == {c \in cs : /\ Increase(g, n2c, u, c) > 0
                            /\ \A d \in cs : Increase(g, n2c, u, d) <= Increase(g, n2c, u, c)}
    IN  IF best = {} THEN {n2c[u]} ELSE best

\* __renumber: the community ids made 0..k-1, the ids already there kept
Renumber(n2c) ==
    LET values == Range(n2c)
        target == 0..(Cardinality(values) - 1)
        out == values \ target
        free == target \ values
        rank(S, x) == Cardinality({y \in S : y < x})
        to(v) == IF v \in target THEN v
                 ELSE CHOOSE t \in free : rank(free, t) = rank(out, v)
    IN  [u \in DOMAIN n2c |-> to(n2c[u])]

\* induced_graph: one node per community, in the order the communities first
\* occur; the weights between two communities added up
Induced(g, part) ==
    LET cs == Range(part)
        first(c) == CHOOSE i \in DOMAIN g.nodes :
                        /\ part[g.nodes[i]] = c
                        /\ \A j \in DOMAIN g.nodes : part[g.nodes[j]] = c => i <= j
        between(c, d) ==
            LET ps == {p \in Names(g) \X Names(g) :
                          /\ part[p[1]] = c /\ part[p[2]] = d
                          /\ (c = d => p[1] <= p[2])}
            IN  SumF([p \in ps |-> g.w[p]], ps)
    IN  [nodes |-> [k \in 1..Cardinality(cs) |->
                       CHOOSE c \in cs : Cardinality({d \in cs : first(d) < first(c)}) = k - 1],
         w |-> [p \in cs \X cs |-> between(p[1], p[2])]]

RECURSIVE PartitionAtLevel(_, _)
\* partition_at_level(dendrogram, level)
PartitionAtLevel(d, level) ==
    IF level = 1 THEN d[1]
    ELSE LET below == PartitionAtLevel(d, level - 1)
         IN  [u \in DOMAIN below |-> d[level][below[u]]]

InitCluster ==
    /\ G \in Graphs
    /\ lrun = 1 /\ lpc = "start"
    /\ lg = <<>> /\ node2com = <<>> /\ todo = {} /\ modified = FALSE
    /\ cur_mod = 0 /\ new_mod = 0 /\ mod = 0 /\ dendo = <<>>
    /\ partition1 = <<>> /\ partition2 = <<>>
    /\ DecIdle /\ VisIdle /\ StoreEmpty /\ WkIdle /\ PoolIdle /\ CgIdle

\* generate_dendrogram on a graph with no edge: every node alone, numbered in
\* the order of the nodes
NoEdges ==
    /\ lpc = "start"
    /\ TotalWeight(G) = 0
    /\ dendo' = <<InitStatus(G)>>
    /\ lpc' = "finish"
    /\ UNCHANGED <<G, lrun, lg, node2com, todo, modified, cur_mod, new_mod, mod,
                   partition1, partition2, notLou>>

\* generate_dendrogram: status.init and the first call of __one_level
FirstLevel ==
    /\ lpc = "start"
    /\ TotalWeight(G) > 0
    /\ lg' = G
    /\ node2com' = InitStatus(G)
    /\ new_mod' = Modularity(G, InitStatus(G))
    /\ modified' = TRUE
    /\ dendo' = <<>>
    /\ lpc' = "pass"
    /\ UNCHANGED <<G, lrun, todo, cur_mod, mod, partition1, partition2, notLou>>

\* __one_level: a pass begins
BeginPass ==
    /\ lpc = "pass"
    /\ cur_mod' = new_mod
    /\ modified' = FALSE
    /\ todo' = Names(lg)
    /\ lpc' = "nodes"
    /\ UNCHANGED <<G, lrun, lg, node2com, new_mod, mod, dendo, partition1, partition2,
                   notLou>>

\* __one_level: the pass visits one node, any of those left since the list is
\* shuffled, and moves it to its best community
MoveNode ==
    /\ lpc = "nodes"
    /\ \E u \in todo :
        /\ \E best_com \in BestComs(lg, node2com, u) :
            /\ node2com' = [node2com EXCEPT ![u] = best_com]
            /\ modified' = (modified \/ best_com # node2com[u])
        /\ todo' = todo \ {u}
    /\ UNCHANGED <<G, lrun, lpc, lg, cur_mod, new_mod, mod, dendo, partition1,
                   partition2, notLou>>

\* __one_level: the pass ends; another one follows if a node moved and the
\* modularity grew
EndPass ==
    /\ lpc = "nodes"
    /\ todo = {}
    /\ new_mod' = Modularity(lg, node2com)
    /\ lpc' = IF modified /\ Modularity(lg, node2com) > cur_mod THEN "pass" ELSE "levelend"
    /\ UNCHANGED <<G, lrun, lg, node2com, todo, modified, cur_mod, mod, dendo,
                   partition1, partition2, notLou>>

\* generate_dendrogram: the level is kept and the graph of its communities is
\* the next level's, unless (after the first level) the modularity did not grow
LevelEnd ==
    /\ lpc = "levelend"
    /\ IF dendo # <<>> /\ new_mod <= mod
       THEN /\ lpc' = "finish"
            /\ UNCHANGED <<lg, node2com, new_mod, modified, mod, dendo>>
       ELSE LET part == Renumber(node2com)
                next == Induced(lg, part)
            IN  /\ dendo' = Append(dendo, part)
                /\ mod' = new_mod
                /\ lg' = next
                /\ node2com' = InitStatus(next)
                /\ new_mod' = Modularity(next, InitStatus(next))
                /\ modified' = TRUE
                /\ lpc' = "pass"
    /\ UNCHANGED <<G, lrun, todo, cur_mod, partition1, partition2, notLou>>

\* best_partition returns the partition at the last level; cluster_graph
\* returns it (line 54), and is called again on the same graph
ClusterReturn ==
    /\ lpc = "finish"
    /\ IF lrun = 1
       THEN /\ partition1' = PartitionAtLevel(dendo, Len(dendo))
            /\ lrun' = 2
            /\ lpc' = "start"
            /\ UNCHANGED partition2
       ELSE /\ partition2' = PartitionAtLevel(dendo, Len(dendo))
            /\ lpc' = "done"
            /\ UNCHANGED <<partition1, lrun>>
    /\ UNCHANGED <<G, lg, node2com, todo, modified, cur_mod, new_mod, mod, dendo, notLou>>

NextCluster ==
    \/ NoEdges \/ FirstLevel \/ BeginPass \/ MoveNode \/ EndPass \/ LevelEnd
    \/ ClusterReturn

SpecCluster == InitCluster /\ [][NextCluster]_vars

\* C10: two calls of cluster_graph on the same graph, with the same node
\* order, return the same node-to-community mapping.
C10_ClusterGraphDeterministic ==
    lpc = "done" => partition1 = partition2

-----------------------------------------------------------------------------
(* Clustering.create_graph.  Only the ids matter to the graph's shape: the   *)
(* labels, properties and types are attributes the nodes and edges carry.    *)

MaxDecl == 2
MaxRels == 2

\* the ids the "nodes" list declares, and the ids a relationship may name
DeclaredIds == {1, 2}
RelationshipIds == {1, 2, 3}

\* the JSON descriptions json.load returns
GraphDescriptions ==
    [nodes : SeqsUpTo(DeclaredIds, MaxDecl),
     relationships : SeqsUpTo([start : RelationshipIds, end : RelationshipIds], MaxRels)]

\* nx.Graph()
EmptyGraph == [nodes |-> <<>>, edges |-> {}]

\* n in G
InGraph(g, n) == n \in Range(g.nodes)

\* G.add_node(n): a node already there keeps its place
add_node(g, n) == IF InGraph(g, n) THEN g ELSE [g EXCEPT !.nodes = Append(@, n)]

\* G.add_edge(u, v): adds the nodes that are missing, then the undirected edge
add_edge(g, u, v) ==
    [add_node(add_node(g, u), v) EXCEPT !.edges = @ \cup {{u, v}}]

\* lines 41-43: one relationship
AddUnguarded(g, rel) == add_edge(g, rel.start, rel.end)
AddRel(g, rel) ==
    IF InGraph(g, rel.start) /\ InGraph(g, rel.end)
    THEN add_edge(g, rel.start, rel.end)
    ELSE g

\* create_graph is called with graph_data loaded
InitCreateGraph ==
    /\ gfile = "idle"
    /\ graph_data \in GraphDescriptions
    /\ gpc = "create" /\ gi = 0 /\ nxG = <<>> /\ graised = "none"
    /\ DecIdle /\ VisIdle /\ StoreEmpty /\ WkIdle /\ PoolIdle /\ LouIdle

\* line 33
CreateGraphStart ==
    /\ gpc = "create"
    /\ graph_data # None
    /\ nxG' = EmptyGraph
    /\ gi' = 1
    /\ gpc' = "nodes"
    /\ UNCHANGED <<gfile, graph_data, graised, louVars, notCg>>

\* lines 36-37: one declared node
AddNode ==
    /\ gpc = "nodes"
    /\ gi <= Len(graph_data.nodes)
    /\ nxG' = add_node(nxG, graph_data.nodes[gi])
    /\ gi' = gi + 1
    /\ UNCHANGED <<gfile, graph_data, gpc, graised, louVars, notCg>>

\* line 40: the loop over the nodes is over
NodesDone ==
    /\ gpc = "nodes"
    /\ gi > Len(graph_data.nodes)
    /\ gi' = 1
    /\ gpc' = "rels"
    /\ UNCHANGED <<gfile, graph_data, nxG, graised, louVars, notCg>>

\* lines 40-43: one relationship
AddRelationship ==
    /\ gpc = "rels"
    /\ gi <= Len(graph_data.relationships)
    /\ nxG' = AddRel(nxG, graph_data.relationships[gi])
    /\ gi' = gi + 1
    /\ UNCHANGED <<gfile, graph_data, gpc, graised, louVars, notCg>>

\* line 45
CreateGraphReturn ==
    /\ gpc = "rels"
    /\ gi > Len(graph_data.relationships)
    /\ gpc' = "created"
    /\ UNCHANGED <<gfile, graph_data, gi, nxG, graised, louVars, notCg>>

NextCreateGraph ==
    CreateGraphStart \/ AddNode \/ NodesDone \/ AddRelationship \/ CreateGraphReturn

SpecCreateGraph == InitCreateGraph /\ [][NextCreateGraph]_vars

\* the declared node ids, and the relationships both of whose ids are declared
Declared == Range(graph_data.nodes)
Joining ==
    {r \in Range(graph_data.relationships) : r.start \in Declared /\ r.end \in Declared}
Dangling == Range(graph_data.relationships) \ Joining

\* C11: create_graph never raises on a dangling relationship and never adds a
\* node for one: while it runs the graph's nodes are declared ids and its edges
\* join declared ids, and it returns the graph whose nodes are exactly the
\* declared ids and whose edges are exactly the non-dangling relationships.
C11_DanglingEdgesDropped ==
    /\ graised = "none"
    /\ gpc \in {"nodes", "rels", "created"} =>
        /\ Range(nxG.nodes) \subseteq Declared
        /\ \A e \in nxG.edges : e \subseteq Declared
    /\ gpc = "created" =>
        /\ Range(nxG.nodes) = Declared
        /\ nxG.edges = {{r.start, r.end} : r \in Joining}

C11_Witness ==
    /\ gpc = "created"
    /\ Cardinality(Declared) = 2
    /\ Joining # {}
    /\ \E r \in Dangling : r.start \in Declared \/ r.end \in Declared

-----------------------------------------------------------------------------
(* Clustering.process: read_json, create_graph, cluster_graph and            *)
(* visualize_clusters, one after the other.                                  *)

\* what opening and parsing file_path can do
GraphFiles ==
    [status : {"ok"}, data : GraphDescriptions]
        \cup [status : {"missing", "malformed"}, data : {None}]

InitProcess ==
    /\ gfile \in GraphFiles
    /\ graph_data = None
    /\ gpc = "read" /\ gi = 0 /\ nxG = <<>> /\ graised = "none"
    /\ DecIdle /\ VisIdle /\ StoreEmpty /\ WkIdle /\ PoolIdle /\ LouIdle

\* lines 15-26: FileNotFoundError and JSONDecodeError are printed, and
\* self.graph_data stays as __init__ left it
ReadGraphJson ==
    /\ gpc = "read"
    /\ graph_data' = IF gfile.status = "ok" THEN gfile.data ELSE graph_data
    /\ gpc' = "create"
    /\ UNCHANGED <<gfile, gi, nxG, graised, louVars, notCg>>

\* line 36 with self.graph_data None: None["nodes"] raises TypeError, which
\* nothing in process catches
CreateGraphRaises ==
    /\ gpc = "create"
    /\ graph_data = None
    /\ graised' = "TypeError"
    /\ gpc' = "raised"
    /\ UNCHANGED <<gfile, graph_data, gi, nxG, louVars, notCg>>

\* the graph create_graph returned, as best_partition reads it: every edge
\* has weight 1
Weighted(g) ==
    [nodes |-> g.nodes,
     w |-> [p \in Range(g.nodes) \X Range(g.nodes) |->
               IF {p[1], p[2]} \in g.edges THEN 1 ELSE 0]]

\* line 82: the one call of cluster_graph
ClusterStart ==
    /\ gpc = "created"
    /\ G' = Weighted(nxG)
    /\ lrun' = 2
    /\ lpc' = "start"
    /\ gpc' = "cluster"
    /\ UNCHANGED <<lg, node2com, todo, modified, cur_mod, new_mod, mod, dendo,
                   partition1, partition2>>
    /\ UNCHANGED <<gfile, graph_data, gi, nxG, graised, notCg>>

\* lines 83-84: visualize_clusters takes max(partition.values()) (line 66),
\* which raises ValueError for the empty partition of an empty graph
VisualizeAndReturn ==
    /\ gpc = "cluster"
    /\ lpc = "done"
    /\ IF partition2 = <<>>
       THEN graised' = "ValueError" /\ gpc' = "raised"
       ELSE graised' = graised /\ gpc' = "done"
    /\ UNCHANGED <<gfile, graph_data, gi, nxG, louVars, notCg>>

NextProcess ==
    \/ ReadGraphJson \/ CreateGraphRaises \/ NextCreateGraph
    \/ ClusterStart \/ NextCluster \/ VisualizeAndReturn

SpecProcess == InitProcess /\ [][NextProcess]_vars

\* C12: when the file is missing or malformed, Clustering.process ends without
\* an exception and without having built a graph.
C12_BadFileAbortsGracefully ==
    gfile.status \in {"missing", "malformed"} =>
        /\ graised = "none"
        /\ nxG = <<>>
        /\ lpc = "idle"

====
